---- MODULE Spec2Model ----
(***************************************************************************)
(* A model of offset's kernel (src/offset/core/kernel.py): the run queue,  *)
(* the sleeping table, the deferred re-entry stack, the signal queue and   *)
(* the syscall bridge to the thread pool.                                  *)
(*                                                                         *)
(* One scheduler thread runs the fibers; exactly one fiber (`current`) is  *)
(* running at a time.  Every fiber has its own frame of Kernel.schedule,   *)
(* so the position of each fiber is kept in pc[t], named after the source  *)
(* line the fiber executes next ("s122" = kernel.py line 122).  The done   *)
(* callback of a future (Kernel.exit_syscall) runs on a pool thread and is *)
(* interleaved line by line with the scheduler thread.                     *)
(*                                                                         *)
(* The kqueue poller (src/offset/net/fd_bsd.py) is a second, independent   *)
(* machine over its own variables: the kqueue, the buffer self.events and  *)
(* the lock of the poll server that waitfd takes around the OS call.       *)
(***************************************************************************)
EXTENDS Integers, Sequences, FiniteSets, TLC

\* ------------------------------------------------------------ bounds
MaxProcs == 2        \* goroutines that newproc may create
MaxFut == 2          \* futures of the thread pool
MaxCalls == 1        \* enter_syscall calls when tasks may also park, ready and run
MaxYield == 2        \* gosched calls of one cooperative goroutine
MaxRunCalls == 2     \* entries of _run_calls (main's run and one nested run)
MaxNest == 2         \* signal handlers active at once (one nested in another)
MaxFd == 1           \* file descriptors given to the poller
MaxLocks == 2        \* pollserver.lock() calls of one waitfd call

\* ------------------------------------------------------------ constants
SigCapacity == 5     \* kernel.py line 71: len(self.SIGQUEUE) < 5

Main == 0                         \* proc.MainProc(), the fiber of the caller
Procs == 1..MaxProcs              \* proc.Proc objects made by newproc
Tasks == {Main} \cup Procs
Futs == 1..MaxFut
NoTask == -1
NoFut == 0

FatalSignals == {"quit", "int", "term"}      \* Kernel.SIGNALS, line 119
Signals == {"int", "hup"}                    \* keys of Kernel.SIGNAMES delivered here

VARIABLES
    runq,        \* Kernel.runq: deque of tasks
    sleeping,    \* Kernel.sleeping: dict future -> task
    run_calls,   \* Kernel._run_calls: list used as a stack
    last_task,   \* Kernel._last_task
    SIGQUEUE,    \* Kernel.SIGQUEUE
    gsleeping,   \* g.sleeping of every task
    alive,       \* g.is_alive() of every task
    created,     \* the Procs newproc has made
    parent,      \* the fiber that created a Proc (control returns there when it ends)
    current,     \* proc.current()
    pc,          \* next source line of every task
    ret,         \* which call entered schedule(): gosched, park, run or syscall
    gnext,       \* local gnext of every task's schedule() frame
    myf,         \* local f of every task's enter_syscall() frame
    fut,         \* the futures: state, outcome kind, submitting task
    cb,          \* the done callback of every future: position in exit_syscall
    cbg,         \* local g of every exit_syscall() frame
    sigstack,    \* signal_recv frames between line 71 and line 72, innermost last
    fatalAtTick, \* a quit, int or term signal was queued when line 114 last ran
    exited,      \* os._exit status, or "no"
    raised,      \* the exception the last kernel call raised to its caller, or "none"
    lastop,      \* what the last step of a kernel call did
    got,         \* the outcomes enter_syscall returned or raised in every task
    arrived,     \* tasks that were queued when a task's completion was admitted
    waiters,     \* the same, from the first tick that starts after the completion
    deaths,      \* how many times a task went from alive to not alive
    yielded,     \* gosched calls made by a cooperative task
    pnames,      \* fd_bsd: names bound in the module besides those the file binds
    pobj,        \* fd_bsd: "none", "ok" (Pollster() returned) or "failed"
    kq,          \* fd_bsd: the kevents registered in self.kq: <<ident, filter, oneshot>>
    osready,     \* the <<ident, filter>> pairs the OS holds ready
    events,      \* Pollster.events
    plock,       \* the lock of the poll server: "free", "waitfd" or "other"
    wpc,         \* next source line of the thread inside waitfd, or "idle"
    wlocal,      \* local events of the waitfd frame
    wpend,       \* what the try statement of waitfd does after its finally clause
    pres,        \* what the last poller call returned or raised
    acq,         \* pollserver.lock() calls of the waitfd call in progress
    rel,         \* pollserver.unlock() calls of the waitfd call in progress
    removed      \* <<fd, mode>> pairs whose delfd returned, with no addfd since

kernelvars == <<runq, sleeping, run_calls, last_task, SIGQUEUE, gsleeping, alive,
          created, parent, current, pc, ret, gnext, myf, fut, cb, cbg,
          sigstack, fatalAtTick, exited, raised, lastop, got, arrived, waiters, deaths,
          yielded>>

pvars == <<pnames, pobj, kq, osready, events, plock, wpc, wlocal, wpend, pres,
           acq, rel, removed>>

vars == <<kernelvars, pvars>>

kvars == <<runq, sleeping, run_calls, last_task>>
tvars == <<gsleeping, alive, created, parent>>
fvars == <<fut, cb, cbg>>
svars == <<SIGQUEUE, sigstack, fatalAtTick>>
hvars == <<got, arrived, waiters, deaths, yielded>>

\* ------------------------------------------------------------ helpers
Range(s) == {s[i] : i \in 1..Len(s)}

\* deque.remove(g): removes the first occurrence, ValueError when absent
RECURSIVE RemoveFirst(_, _)
RemoveFirst(s, g) ==
    IF s = <<>> THEN <<>>
    ELSE IF Head(s) = g THEN Tail(s)
    ELSE <<Head(s)>> \o RemoveFirst(Tail(s), g)

\* deque.rotate(-1): the head goes to the tail
\* (a rotate that leaves the deque as it is)
RotateNot(s) == s

Rotate(s) == IF s = <<>> THEN <<>> ELSE Tail(s) \o <<Head(s)>>

\* deque.appendleft(g)
AppendLeft(s, g) == <<g>> \o s

\* list.pop(): the last element goes
PopLast(s) == SubSeq(s, 1, Len(s) - 1)

\* dict.pop(f)
DictPop(d, f) == [k \in (DOMAIN d) \ {f} |-> d[k]]

\* d[f] = g
\* (an assignment that records nothing)
DictSetLost(d, f, g) == d

DictSet(d, f, g) == [k \in (DOMAIN d) \cup {f} |-> IF k = f THEN g ELSE d[k]]

\* No Pollster has been made: the module fd_bsd holds the names it binds
\* itself, no kqueue is open, the lock of the poll server is free.
NoPollster ==
    /\ pnames = {}
    /\ pobj = "none"
    /\ kq = {}
    /\ osready = {}
    /\ events = <<>>
    /\ plock = "free"
    /\ wpc = "idle"
    /\ wlocal = <<>>
    /\ wpend = "none"
    /\ pres = [op |-> "none", fd |-> 0, mode |-> "none", exc |-> "none"]
    /\ acq = 0
    /\ rel = 0
    /\ removed = {}

KernelInit ==
    /\ runq = <<>>
    /\ sleeping = <<>>
    /\ run_calls = <<>>
    /\ last_task = Main
    /\ SIGQUEUE = <<>>
    /\ gsleeping = [t \in Tasks |-> FALSE]
    /\ alive = [t \in Tasks |-> t = Main]
    /\ created = {}
    /\ parent = [t \in Procs |-> NoTask]
    /\ current = Main
    /\ pc = [t \in Tasks |-> IF t = Main THEN "body" ELSE "none"]
    /\ ret = [t \in Tasks |-> "none"]
    /\ gnext = [t \in Tasks |-> NoTask]
    /\ myf = [t \in Tasks |-> NoFut]
    /\ fut = [f \in Futs |-> [state |-> "none", kind |-> "none", by |-> NoTask]]
    /\ cb = [f \in Futs |-> "unreg"]
    /\ cbg = [f \in Futs |-> NoTask]
    /\ sigstack = <<>>
    /\ fatalAtTick = FALSE
    /\ exited = "no"
    /\ raised = "none"
    /\ lastop = "none"
    /\ got = [t \in Tasks |-> {}]
    /\ arrived = [t \in Tasks |-> {}]
    /\ waiters = [t \in Tasks |-> {}]
    /\ deaths = [t \in Tasks |-> 0]
    /\ yielded = [t \in Tasks |-> 0]

Init == KernelInit /\ NoPollster

\* The scheduler thread runs task t: the process lives, t is the current
\* fiber, and no signal handler is running on top of it.
Running(t) == exited = "no" /\ current = t /\ sigstack = <<>>

InBody(t) == Running(t) /\ pc[t] = "body"

\* Every step of the kernel records what it did and leaves the poller alone.
Step(op, exc) == lastop' = op /\ raised' = exc /\ UNCHANGED pvars

\* -------------------------------------------------- calls made by a task
\* newproc (lines 74-81): make a Proc and append it at the tail of runq.
\* The Proc is the unused one of smallest index; it is alive and not started.
NewprocQueue(q, g) == Append(q, g)

Newproc(t) ==
    /\ InBody(t)
    /\ created # Procs
    /\ LET g == CHOOSE x \in Procs \ created : \A y \in Procs \ created : x <= y
       IN /\ created' = created \cup {g}
          /\ alive' = [alive EXCEPT ![g] = TRUE]
          /\ parent' = [parent EXCEPT ![g] = t]
          /\ pc' = [pc EXCEPT ![g] = "new"]
          /\ runq' = NewprocQueue(runq, g)
    /\ Step("newproc", "none")
    /\ UNCHANGED <<sleeping, run_calls, last_task, gsleeping, current, ret,
                   gnext, myf, fvars, svars, exited, hvars>>

\* gosched = kernel.schedule (line 190): enter the scheduling loop.
EnterSchedule(t, how) ==
    /\ pc' = [pc EXCEPT ![t] = "s114"]
    /\ ret' = [ret EXCEPT ![t] = how]

Gosched(t) ==
    /\ InBody(t)
    /\ EnterSchedule(t, "gosched")
    /\ Step("gosched", "none")
    /\ UNCHANGED <<kvars, tvars, current, gnext, myf, fvars, svars, exited, hvars>>

\* park (lines 92-100), called by a task on itself.  Line 94 and line 96 are
\* separate steps: a done callback may run between them.
Park(t) ==
    /\ InBody(t)
    /\ pc' = [pc EXCEPT ![t] = "p94"]
    /\ ret' = [ret EXCEPT ![t] = "park"]
    /\ Step("park", "none")
    /\ UNCHANGED <<kvars, tvars, current, gnext, myf, fvars, svars, exited, hvars>>

\* line 94: g.sleeping = True
Park94(t) ==
    /\ Running(t)
    /\ pc[t] = "p94"
    /\ gsleeping' = [gsleeping EXCEPT ![t] = TRUE]
    /\ pc' = [pc EXCEPT ![t] = "p96"]
    /\ Step("p94", "none")
    /\ UNCHANGED <<kvars, alive, created, parent, current, ret, gnext, myf,
                   fvars, svars, exited, hvars>>

\* lines 95-100: self.runq.remove(g), ValueError ignored; then self.schedule()
ParkRemove(q, g) == RemoveFirst(q, g)

Park96(t) ==
    /\ Running(t)
    /\ pc[t] = "p96"
    /\ runq' = ParkRemove(runq, t)
    /\ pc' = [pc EXCEPT ![t] = "s114"]
    /\ Step("p96", "none")
    /\ UNCHANGED <<sleeping, run_calls, last_task, tvars, current, ret, gnext,
                   myf, fvars, svars, exited, hvars>>

\* ready (lines 102-108): KernelError when g is not sleeping, and nothing
\* changes; else the flag is cleared and g is appended at the tail.
\* (a ready that does not look at the flag)
ReadyNeverRaises(g) == FALSE

ReadyRaises(g) == ~gsleeping[g]

ReadyQueue(q, g) == Append(q, g)

ReadyFlag(g) == [gsleeping EXCEPT ![g] = FALSE]

Ready(t, g) ==
    /\ InBody(t)
    /\ t # Main
    /\ g \in created
    /\ IF ReadyRaises(g)
       THEN /\ Step("ready", "KernelError")
            /\ UNCHANGED <<runq, gsleeping>>
       ELSE /\ gsleeping' = ReadyFlag(g)
            /\ runq' = ReadyQueue(runq, g)
            /\ Step("ready", "none")
    /\ UNCHANGED <<sleeping, run_calls, last_task, alive, created, parent,
                   current, pc, ret, gnext, myf, fvars, svars, exited, hvars>>

\* run (lines 150-152): push the caller on _run_calls, enter the loop.
Run(t) ==
    /\ InBody(t)
    /\ Len(run_calls) < MaxRunCalls
    /\ run_calls' = Append(run_calls, t)
    /\ EnterSchedule(t, "run")
    /\ Step("run", "none")
    /\ UNCHANGED <<runq, sleeping, last_task, tvars, current, gnext, myf,
                   fvars, svars, exited, hvars>>

\* ------------------------------------------------ schedule (lines 110-148)
\* gcurrent = proc.current() is the task t whose frame this is.

\* schedule() returns to the call that entered it: enter_syscall goes on at
\* line 166; run() called by the main program ends the program's use of
\* the kernel; gosched and park, and run called by a Proc, go back to the
\* body of their caller.
AfterReturn(t) ==
    IF ret[t] = "syscall" THEN "e166"
    ELSE IF t = Main /\ ret[t] = "run" THEN "done"
    ELSE "body"

ScheduleReturns(t) ==
    /\ pc' = [pc EXCEPT ![t] = AfterReturn(t)]
    /\ ret' = [ret EXCEPT ![t] = "none"]
    /\ gnext' = [gnext EXCEPT ![t] = NoTask]

\* lines 114-120: pop at most one signal; quit, int and term end the process.
IsFatal(sig) == sig \in FatalSignals

Sched114(t) ==
    /\ Running(t)
    /\ pc[t] = "s114"
    /\ IF SIGQUEUE # <<>>
       THEN /\ SIGQUEUE' = Tail(SIGQUEUE)
            /\ IF IsFatal(Head(SIGQUEUE))
               THEN exited' = "EX_IOERR" /\ pc' = pc
               ELSE exited' = exited /\ pc' = [pc EXCEPT ![t] = "s122"]
       ELSE /\ pc' = [pc EXCEPT ![t] = "s122"]
            /\ UNCHANGED <<SIGQUEUE, exited>>
    /\ fatalAtTick' = (\E i \in 1..Len(SIGQUEUE) : IsFatal(SIGQUEUE[i]))
    /\ waiters' = [g \in Tasks |-> waiters[g] \cup arrived[g]]
    /\ arrived' = [g \in Tasks |-> {}]
    /\ Step("s114", "none")
    /\ UNCHANGED <<kvars, tvars, current, ret, gnext, myf, fvars, sigstack,
                   got, deaths, yielded>>

\* lines 122-123: runq not empty, and is its head the caller?
Sched122(t) ==
    /\ Running(t)
    /\ pc[t] = "s122"
    /\ pc' = [pc EXCEPT ![t] = IF runq = <<>> THEN "s128"
                                ELSE IF Head(runq) = t THEN "s124" ELSE "s126"]
    /\ Step("s122", "none")
    /\ UNCHANGED <<kvars, tvars, current, ret, gnext, myf, fvars, svars,
                   exited, hvars>>

\* line 124: self.runq.rotate(-1)
Sched124(t) ==
    /\ Running(t)
    /\ pc[t] = "s124"
    /\ runq' = Rotate(runq)
    /\ pc' = [pc EXCEPT ![t] = "s126"]
    /\ Step("s124", "none")
    /\ UNCHANGED <<sleeping, run_calls, last_task, tvars, current, ret, gnext,
                   myf, fvars, svars, exited, hvars>>

\* line 126: gnext = self.runq[0]  (runq only grows under a callback)
Candidate(q) == Head(q)

Sched126(t) ==
    /\ Running(t)
    /\ pc[t] = "s126"
    /\ gnext' = [gnext EXCEPT ![t] = Candidate(runq)]
    /\ pc' = [pc EXCEPT ![t] = "s139"]
    /\ Step("s126", "none")
    /\ UNCHANGED <<kvars, tvars, current, ret, myf, fvars, svars, exited, hvars>>

\* lines 128-137, runq was empty at line 122: wait for a future and restart
\* while something sleeps; else pop _run_calls; else return.
Sched128(t) ==
    /\ Running(t)
    /\ pc[t] = "s128"
    /\ IF DOMAIN sleeping # {}
       THEN /\ pc' = [pc EXCEPT ![t] = "s114"]
            /\ Step("s131", "none")
            /\ UNCHANGED <<run_calls, gnext, ret>>
       ELSE IF run_calls # <<>>
       THEN /\ gnext' = [gnext EXCEPT ![t] = run_calls[Len(run_calls)]]
            /\ run_calls' = PopLast(run_calls)
            /\ pc' = [pc EXCEPT ![t] = "s139"]
            /\ Step("s135", "none")
            /\ UNCHANGED ret
       ELSE /\ ScheduleReturns(t)
            /\ Step("s137", "none")
            /\ UNCHANGED run_calls
    /\ UNCHANGED <<runq, sleeping, last_task, tvars, current, myf, fvars,
                   svars, exited, hvars>>

\* line 139: if not gnext.is_alive()
Sched139(t) ==
    /\ Running(t)
    /\ pc[t] = "s139"
    /\ pc' = [pc EXCEPT ![t] = IF alive[gnext[t]] THEN "s143" ELSE "s140"]
    /\ Step("s139", "none")
    /\ UNCHANGED <<kvars, tvars, current, ret, gnext, myf, fvars, svars,
                   exited, hvars>>

\* lines 140-141: self.runq.popleft(); continue.  popleft of an empty deque
\* raises IndexError out of schedule().
\* (a popleft that removes nothing)
PopLeftKeeps(q) == q

PopLeft(q) == Tail(q)

Sched140(t) ==
    /\ Running(t)
    /\ pc[t] = "s140"
    /\ IF runq = <<>>
       THEN /\ ScheduleReturns(t)
            /\ Step("s140", "IndexError")
            /\ UNCHANGED runq
       ELSE /\ runq' = PopLeft(runq)
            /\ pc' = [pc EXCEPT ![t] = "s114"]
            /\ gnext' = [gnext EXCEPT ![t] = NoTask]
            /\ Step("s140", "none")
            /\ UNCHANGED ret
    /\ UNCHANGED <<sleeping, run_calls, last_task, tvars, current, myf, fvars,
                   svars, exited, hvars>>

\* gnext.switch(): the fiber g runs; a fiber that never ran starts its
\* body, a suspended one goes on after its own switch() at line 147.
SwitchInto(g) == IF pc[g] = "new" THEN "body" ELSE "s147"

\* lines 143-145: self._last_task = gnext; switch unless gnext is the caller
Sched143(t) ==
    /\ Running(t)
    /\ pc[t] = "s143"
    /\ LET g == gnext[t]
       IN /\ last_task' = g
          /\ waiters' = [waiters EXCEPT ![g] = {}]
          /\ arrived' = [arrived EXCEPT ![g] = {}]
          /\ IF g # t
             THEN /\ pc[g] \in {"new", "s145"}
                  /\ pc' = [pc EXCEPT ![t] = "s145", ![g] = SwitchInto(g)]
                  /\ current' = g
             ELSE /\ pc' = [pc EXCEPT ![t] = "s147"]
                  /\ current' = current
    /\ Step("s143", "none")
    /\ UNCHANGED <<runq, sleeping, run_calls, tvars, ret, gnext, myf, fvars,
                   svars, exited, got, deaths, yielded>>

\* line 147: gcurrent is self._last_task
CycledBack(t) == last_task = t

\* lines 147-148: if gcurrent is self._last_task: return; else loop
Sched147(t) ==
    /\ Running(t)
    /\ pc[t] = "s147"
    /\ IF CycledBack(t)
       THEN ScheduleReturns(t)
       ELSE /\ pc' = [pc EXCEPT ![t] = "s114"]
            /\ gnext' = [gnext EXCEPT ![t] = NoTask]
            /\ UNCHANGED ret
    /\ Step("s147", "none")
    /\ UNCHANGED <<kvars, tvars, current, myf, fvars, svars, exited, hvars>>

\* The body of a Proc returns: it is not alive any more, and the fiber
\* that created it (or the nearest ancestor still alive) goes on after
\* the switch() it is suspended in.
RECURSIVE Heir(_)
Heir(t) == IF alive[parent[t]] THEN parent[t] ELSE Heir(parent[t])

Finish(t) ==
    /\ InBody(t)
    /\ t # Main
    /\ pc[Heir(t)] = "s145"
    /\ alive' = [alive EXCEPT ![t] = FALSE]
    /\ deaths' = [deaths EXCEPT ![t] = @ + 1]
    /\ pc' = [pc EXCEPT ![t] = "dead", ![Heir(t)] = "s147"]
    /\ current' = Heir(t)
    /\ Step("finish", "none")
    /\ UNCHANGED <<kvars, gsleeping, created, parent, ret, gnext, myf, fvars,
                   svars, exited, got, arrived, waiters, yielded>>

\* ------------------------------------------- enter_syscall (lines 154-168)
Finished(f) == fut[f].state \in {"done", "cancelled"}

Unused == {f \in Futs : fut[f].state = "none"}

EnterSyscall(t) ==
    /\ InBody(t)
    /\ t # Main
    /\ Cardinality(Futs \ Unused) < MaxCalls
    /\ pc' = [pc EXCEPT ![t] = "e157"]
    /\ Step("enter_syscall", "none")
    /\ UNCHANGED <<kvars, tvars, current, ret, gnext, myf, fvars, svars,
                   exited, hvars>>

\* line 157: gt.sleeping = True
Enter157(t) ==
    /\ Running(t)
    /\ pc[t] = "e157"
    /\ gsleeping' = [gsleeping EXCEPT ![t] = TRUE]
    /\ pc' = [pc EXCEPT ![t] = "e159"]
    /\ Step("e157", "none")
    /\ UNCHANGED <<kvars, alive, created, parent, current, ret, gnext, myf,
                   fvars, svars, exited, hvars>>

\* line 159: f = self.tpool.submit(fn, ...): a new future, pending
Enter159(t) ==
    /\ Running(t)
    /\ pc[t] = "e159"
    /\ LET f == CHOOSE x \in Unused : \A y \in Unused : x <= y
       IN /\ fut' = [fut EXCEPT ![f] = [state |-> "pending", kind |-> "none", by |-> t]]
          /\ myf' = [myf EXCEPT ![t] = f]
    /\ pc' = [pc EXCEPT ![t] = "e160"]
    /\ Step("e159", "none")
    /\ UNCHANGED <<kvars, tvars, current, ret, gnext, cb, cbg, svars, exited, hvars>>

\* line 160: self.sleeping[f] = gt
Enter160(t) ==
    /\ Running(t)
    /\ pc[t] = "e160"
    /\ sleeping' = DictSet(sleeping, myf[t], t)
    /\ pc' = [pc EXCEPT ![t] = "e161"]
    /\ Step("e160", "none")
    /\ UNCHANGED <<runq, run_calls, last_task, tvars, current, ret, gnext, myf,
                   fvars, svars, exited, hvars>>

\* line 161: f.add_done_callback(self.exit_syscall).  Under the future's
\* lock: a future that is finished or cancelled calls the callback at once,
\* in this thread (the task waits at "e162" until it has returned); else
\* the callback is kept for the thread that finishes the future.
Enter161(t) ==
    /\ Running(t)
    /\ pc[t] = "e161"
    /\ IF Finished(myf[t])
       THEN /\ cb' = [cb EXCEPT ![myf[t]] = "c172"]
            /\ pc' = [pc EXCEPT ![t] = "e162"]
       ELSE /\ cb' = [cb EXCEPT ![myf[t]] = "reg"]
            /\ pc' = [pc EXCEPT ![t] = "e164"]
    /\ Step("e161", "none")
    /\ UNCHANGED <<kvars, tvars, current, ret, gnext, myf, fut, cbg, svars,
                   exited, hvars>>

\* the callback called at line 161 has returned
Enter162(t) ==
    /\ Running(t)
    /\ pc[t] = "e162"
    /\ cb[myf[t]] = "fin"
    /\ pc' = [pc EXCEPT ![t] = "e164"]
    /\ Step("e162", "none")
    /\ UNCHANGED <<kvars, tvars, current, ret, gnext, myf, fvars, svars,
                   exited, hvars>>

\* line 164: self.park()
Enter164(t) ==
    /\ Running(t)
    /\ pc[t] = "e164"
    /\ pc' = [pc EXCEPT ![t] = "p94"]
    /\ ret' = [ret EXCEPT ![t] = "syscall"]
    /\ Step("e164", "none")
    /\ UNCHANGED <<kvars, tvars, current, gnext, myf, fvars, svars, exited, hvars>>

\* lines 166-168: f.exception() waits until f is finished or cancelled; a
\* cancelled future raises CancelledError, a failed one raises its
\* exception, else f.result() is returned.  f is the caller's own future.
\* (an enter_syscall that reads the future that finished last)
LastFinished(t) ==
    IF \E f \in Futs : fut[f].state = "done"
    THEN CHOOSE f \in Futs : fut[f].state = "done"
                             /\ \A h \in Futs : fut[h].state = "done" => h <= f
    ELSE myf[t]

OwnFuture(t) == myf[t]

Outcome(f) ==
    IF fut[f].state = "cancelled" THEN <<f, "cancelled">> ELSE <<f, fut[f].kind>>

Enter166(t) ==
    /\ Running(t)
    /\ pc[t] = "e166"
    /\ Finished(OwnFuture(t))
    /\ got' = [got EXCEPT ![t] = @ \cup {Outcome(OwnFuture(t))}]
    /\ pc' = [pc EXCEPT ![t] = "body"]
    /\ myf' = [myf EXCEPT ![t] = NoFut]
    /\ Step("e166", IF fut[OwnFuture(t)].state = "cancelled" THEN "CancelledError"
                    ELSE IF fut[OwnFuture(t)].kind = "exc" THEN "exc" ELSE "none")
    /\ UNCHANGED <<kvars, tvars, current, ret, gnext, fvars, svars, exited,
                   arrived, waiters, deaths, yielded>>

\* ------------------------------------------------------- the thread pool
\* A pool thread runs fn and sets the result ("val") or the exception
\* ("exc") of the future; waiters in f.exception() are woken, and the
\* callbacks are called after that.
WorkerDone(f, kind) ==
    /\ exited = "no"
    /\ fut[f].state = "pending"
    /\ fut' = [fut EXCEPT ![f].state = "done", ![f].kind = kind]
    /\ Step("done", "none")
    /\ UNCHANGED <<kvars, tvars, current, pc, ret, gnext, myf, cb, cbg, svars,
                   exited, hvars>>

\* f.cancel() on a future that has not started
Cancel(f) ==
    /\ exited = "no"
    /\ fut[f].state = "pending"
    /\ fut' = [fut EXCEPT ![f].state = "cancelled"]
    /\ Step("cancel", "none")
    /\ UNCHANGED <<kvars, tvars, current, pc, ret, gnext, myf, cb, cbg, svars,
                   exited, hvars>>

\* -------------------------------------------- exit_syscall (lines 170-184)
\* The callback of f is about to start: it was kept and f is finished, or
\* add_done_callback has just called it.
AtLine172(f) == cb[f] = "c172" \/ (cb[f] = "reg" /\ Finished(f))

\* line 175: f.cancelled()
\* (an exit_syscall that does not look at f.cancelled())
CancelledIgnored(f) == FALSE

Cancelled(f) == fut[f].state = "cancelled"

\* lines 172-176: g = self.sleeping.pop(f), KeyError when f is not a key;
\* return when f.cancelled().
Exit172(f) ==
    /\ exited = "no"
    /\ AtLine172(f)
    /\ IF f \notin DOMAIN sleeping
       THEN /\ cb' = [cb EXCEPT ![f] = "fin"]
            /\ Step("c172", "KeyError")
            /\ UNCHANGED <<sleeping, cbg>>
       ELSE /\ sleeping' = DictPop(sleeping, f)
            /\ IF Cancelled(f)
               THEN /\ cb' = [cb EXCEPT ![f] = "fin"]
                    /\ Step("c176", "none")
                    /\ UNCHANGED cbg
               ELSE /\ cb' = [cb EXCEPT ![f] = "c178"]
                    /\ cbg' = [cbg EXCEPT ![f] = sleeping[f]]
                    /\ Step("c172", "none")
    /\ UNCHANGED <<runq, run_calls, last_task, tvars, current, pc, ret, gnext,
                   myf, fut, svars, exited, hvars>>

\* lines 178-179: if not g.is_alive(): return
Exit178(f) ==
    /\ exited = "no"
    /\ cb[f] = "c178"
    /\ IF alive[cbg[f]]
       THEN /\ cb' = [cb EXCEPT ![f] = "c183"]
            /\ Step("c178", "none")
            /\ UNCHANGED cbg
       ELSE /\ cb' = [cb EXCEPT ![f] = "fin"]
            /\ cbg' = [cbg EXCEPT ![f] = NoTask]
            /\ Step("c179", "none")
    /\ UNCHANGED <<kvars, tvars, current, pc, ret, gnext, myf, fut, svars,
                   exited, hvars>>

\* line 183: g.sleeping = False
Exit183(f) ==
    /\ exited = "no"
    /\ cb[f] = "c183"
    /\ gsleeping' = [gsleeping EXCEPT ![cbg[f]] = FALSE]
    /\ cb' = [cb EXCEPT ![f] = "c184"]
    /\ Step("c183", "none")
    /\ UNCHANGED <<kvars, alive, created, parent, current, pc, ret, gnext, myf,
                   fut, cbg, svars, exited, hvars>>

\* line 184: self.runq.appendleft(g).  When g is still inside its
\* enter_syscall() before line 166, the live tasks queued at this moment,
\* other than g and the running task, are remembered in arrived[g]; the
\* next tick of the loop (line 114) moves them to waiters[g].
ExitQueue(q, g) == AppendLeft(q, g)

BeforeLine166(g) == ret[g] = "syscall" \/ pc[g] \in {"e162", "e164"}

Exit184(f) ==
    /\ exited = "no"
    /\ cb[f] = "c184"
    /\ runq' = ExitQueue(runq, cbg[f])
    /\ arrived' = [arrived EXCEPT ![cbg[f]] =
                      IF BeforeLine166(cbg[f])
                      THEN {x \in Range(runq) : alive[x]} \ {cbg[f], current}
                      ELSE {}]
    /\ cb' = [cb EXCEPT ![f] = "fin"]
    /\ cbg' = [cbg EXCEPT ![f] = NoTask]
    /\ Step("c184", "none")
    /\ UNCHANGED <<sleeping, run_calls, last_task, tvars, current, pc, ret,
                   gnext, myf, fut, svars, exited, got, waiters, deaths, yielded>>

\* ------------------------------------------------------------ the kernel
Next ==
    \/ \E t \in Tasks : Newproc(t)
    \/ \E t \in Tasks : Gosched(t)
    \/ \E t \in Tasks : Park(t)
    \/ \E t \in Tasks : Park94(t)
    \/ \E t \in Tasks : Park96(t)
    \/ \E t \in Tasks, g \in Procs : Ready(t, g)
    \/ \E t \in Tasks : Run(t)
    \/ \E t \in Tasks : Sched114(t)
    \/ \E t \in Tasks : Sched122(t)
    \/ \E t \in Tasks : Sched124(t)
    \/ \E t \in Tasks : Sched126(t)
    \/ \E t \in Tasks : Sched128(t)
    \/ \E t \in Tasks : Sched139(t)
    \/ \E t \in Tasks : Sched140(t)
    \/ \E t \in Tasks : Sched143(t)
    \/ \E t \in Tasks : Sched147(t)
    \/ \E t \in Tasks : Finish(t)
    \/ \E t \in Tasks : EnterSyscall(t)
    \/ \E t \in Tasks : Enter157(t)
    \/ \E t \in Tasks : Enter159(t)
    \/ \E t \in Tasks : Enter160(t)
    \/ \E t \in Tasks : Enter161(t)
    \/ \E t \in Tasks : Enter162(t)
    \/ \E t \in Tasks : Enter164(t)
    \/ \E t \in Tasks : Enter166(t)
    \/ \E f \in Futs, k \in {"val", "exc"} : WorkerDone(f, k)
    \/ \E f \in Futs : Cancel(f)
    \/ \E f \in Futs : Exit172(f)
    \/ \E f \in Futs : Exit178(f)
    \/ \E f \in Futs : Exit183(f)
    \/ \E f \in Futs : Exit184(f)

Spec == Init /\ [][Next]_vars

\* ------------------------------------------------ offloaded calls only
\* Goroutines made by the main program before run() that call
\* enter_syscall, yield and end; every future of the pool may be used.
BridgeSyscall(t) ==
    /\ InBody(t)
    /\ t # Main
    /\ Unused # {}
    /\ pc' = [pc EXCEPT ![t] = "e157"]
    /\ Step("enter_syscall", "none")
    /\ UNCHANGED <<kvars, tvars, current, ret, gnext, myf, fvars, svars,
                   exited, hvars>>

NextBridge ==
    \/ Newproc(Main)
    \/ Run(Main)
    \/ \E t \in Procs : BridgeSyscall(t)
    \/ \E t \in Procs : Gosched(t)
    \/ \E t \in Procs : Finish(t)
    \/ \E t \in Tasks : Park94(t)
    \/ \E t \in Tasks : Park96(t)
    \/ \E t \in Tasks : Sched114(t)
    \/ \E t \in Tasks : Sched122(t)
    \/ \E t \in Tasks : Sched124(t)
    \/ \E t \in Tasks : Sched126(t)
    \/ \E t \in Tasks : Sched128(t)
    \/ \E t \in Tasks : Sched139(t)
    \/ \E t \in Tasks : Sched140(t)
    \/ \E t \in Tasks : Sched143(t)
    \/ \E t \in Tasks : Sched147(t)
    \/ \E t \in Tasks : Enter157(t)
    \/ \E t \in Tasks : Enter159(t)
    \/ \E t \in Tasks : Enter160(t)
    \/ \E t \in Tasks : Enter161(t)
    \/ \E t \in Tasks : Enter162(t)
    \/ \E t \in Tasks : Enter164(t)
    \/ \E t \in Tasks : Enter166(t)
    \/ \E f \in Futs, k \in {"val", "exc"} : WorkerDone(f, k)
    \/ \E f \in Futs : Exit172(f)
    \/ \E f \in Futs : Exit178(f)
    \/ \E f \in Futs : Exit183(f)
    \/ \E f \in Futs : Exit184(f)

SpecBridge == Init /\ [][NextBridge]_vars

\* ------------------------------------------------ cooperative goroutines
\* Goroutines made by the main program before run() that only yield
\* (at most MaxYield times each) and end.
GoschedCoop(t) ==
    /\ InBody(t)
    /\ yielded[t] < MaxYield
    /\ EnterSchedule(t, "gosched")
    /\ yielded' = [yielded EXCEPT ![t] = @ + 1]
    /\ Step("gosched", "none")
    /\ UNCHANGED <<kvars, tvars, current, gnext, myf, fvars, svars, exited,
                   got, arrived, waiters, deaths>>

SchedStep(t) ==
    \/ Sched114(t)
    \/ Sched122(t)
    \/ Sched124(t)
    \/ Sched126(t)
    \/ Sched128(t)
    \/ Sched139(t)
    \/ Sched140(t)
    \/ Sched143(t)
    \/ Sched147(t)

NextCoop ==
    \/ Newproc(Main)
    \/ Run(Main)
    \/ \E t \in Procs : GoschedCoop(t)
    \/ \E t \in Procs : Finish(t)
    \/ \E t \in Tasks : SchedStep(t)

\* The scheduler thread is never stopped from outside: a step it can take
\* is taken.
SpecCoop == Init /\ [][NextCoop]_vars /\ WF_vars(NextCoop)

\* ------------------------------------------------------------- signals
\* signal_recv (lines 70-72) is the handler of the signals; a handler runs
\* on the main thread between two bytecodes, also between line 71 and line
\* 72 of a handler that is already running.
\* line 71: if len(self.SIGQUEUE) < 5
HasRoom(q) == Len(q) < SigCapacity

SignalRecv71(sig) ==
    /\ exited = "no"
    /\ Len(sigstack) < MaxNest
    /\ IF HasRoom(SIGQUEUE)
       THEN /\ sigstack' = Append(sigstack, sig)
            /\ Step("r71", "none")
       ELSE /\ sigstack' = sigstack
            /\ Step("r71_full", "none")
    /\ UNCHANGED <<kvars, tvars, current, pc, ret, gnext, myf, fvars, SIGQUEUE,
                   fatalAtTick, exited, hvars>>

\* line 72: self.SIGQUEUE.append(sig), in the innermost handler
SignalRecv72 ==
    /\ exited = "no"
    /\ sigstack # <<>>
    /\ SIGQUEUE' = Append(SIGQUEUE, sigstack[Len(sigstack)])
    /\ sigstack' = PopLast(sigstack)
    /\ Step("r72", "none")
    /\ UNCHANGED <<kvars, tvars, current, pc, ret, gnext, myf, fvars,
                   fatalAtTick, exited, hvars>>

NextSig ==
    \/ Newproc(Main)
    \/ Run(Main)
    \/ \E t \in Procs : Gosched(t)
    \/ \E t \in Procs : Finish(t)
    \/ \E t \in Tasks : SchedStep(t)
    \/ \E sig \in Signals : SignalRecv71(sig)
    \/ SignalRecv72

SpecSig == Init /\ [][NextSig]_vars

\* ------------------------------------------------------ the kqueue poller
\* src/offset/net/fd_bsd.py.  The file binds fd_, select and Pollster and
\* reads five more names that it never binds; a read of one of them raises
\* NameError unless the name was put into the module namespace from
\* outside.  Which of them are bound is fixed when the module is loaded.
Fds == 1..MaxFd
Modes == {"r", "w"}
KQ_FILTER_READ == "READ"
KQ_FILTER_WRITE == "WRITE"
Unbound == {"syscall", "sys", "selecy", "_fd", "errno"}

Bound(n) == n \in pnames

PollResult(op, fd, mode, exc) == [op |-> op, fd |-> fd, mode |-> mode, exc |-> exc]

\* fd_(x) of offset.net.util: the number of a descriptor given as a number
fd_(x) == x

\* __init__ (lines 14-17): line 16 reads syscall; line 17 makes the buffer.
PollsterInit ==
    /\ pobj = "none"
    /\ IF Bound("syscall")
       THEN /\ pobj' = "ok"
            /\ events' = <<>>
            /\ pres' = PollResult("init", 0, "none", "none")
       ELSE /\ pobj' = "failed"
            /\ events' = events
            /\ pres' = PollResult("init", 0, "none", "NameError")
    /\ UNCHANGED <<kernelvars, pnames, kq, osready, plock, wpc, wlocal, wpend,
                   acq, rel, removed>>

\* addfd, lines 20-23: the filter of the kevent
AddFilter(mode) == IF mode = "r" THEN KQ_FILTER_READ ELSE KQ_FILTER_WRITE

\* addfd reads selecy (line 23, mode other than 'r'), sys (line 27) and
\* _fd (line 33) before it reaches the kqueue
AddRaises(mode) ==
    \/ mode # "r" /\ ~Bound("selecy")
    \/ ~Bound("sys")
    \/ ~Bound("_fd")

\* the kevent <<ident, filter>> is registered in the kqueue q
KqHas(q, ident, filter) == \E e \in q : e[1] = ident /\ e[2] = filter

\* KQ_EV_DELETE: the kevent <<ident, filter>> leaves the kqueue
KqDelete(q, ident, filter) == {e \in q : ~(e[1] = ident /\ e[2] = filter)}

\* KQ_EV_ADD: the kevent is registered, replacing one of the same ident
\* and filter; once is KQ_EV_ONESHOT
KqAdd(q, ident, filter, once) ==
    KqDelete(q, ident, filter) \cup {<<ident, filter, once>>}

\* addfd (lines 19-34)
Addfd(fd, mode, repeat) ==
    /\ pobj = "ok"
    /\ wpc = "idle"
    /\ IF AddRaises(mode)
       THEN /\ kq' = kq
            /\ removed' = removed
            /\ pres' = PollResult("addfd", fd, mode, "NameError")
       ELSE /\ kq' = KqAdd(kq, fd_(fd), AddFilter(mode), ~repeat)
            /\ removed' = removed \ {<<fd, mode>>}
            /\ pres' = PollResult("addfd", fd, mode, "none")
    /\ UNCHANGED <<kernelvars, pnames, pobj, osready, events, plock, wpc, wlocal,
                   wpend, acq, rel>>

\* delfd, lines 42-43: the kevent is built with select.KQ_FILTER_READ;
\* kmode of lines 37-40 is not used
DelFilter(mode) == KQ_FILTER_READ

\* delfd reads syscall (lines 38, 40) and _fd (line 42)
DelRaises(mode) == ~Bound("syscall") \/ ~Bound("_fd")

\* delfd (lines 36-44); deleting a kevent that is not registered is an
\* OS error (ENOENT)
Delfd(fd, mode) ==
    /\ pobj = "ok"
    /\ wpc = "idle"
    /\ IF DelRaises(mode)
       THEN /\ kq' = kq
            /\ removed' = removed
            /\ pres' = PollResult("delfd", fd, mode, "NameError")
       ELSE IF ~KqHas(kq, fd_(fd), DelFilter(mode))
       THEN /\ kq' = kq
            /\ removed' = removed
            /\ pres' = PollResult("delfd", fd, mode, "OSError")
       ELSE /\ kq' = KqDelete(kq, fd_(fd), DelFilter(mode))
            /\ removed' = removed \cup {<<fd, mode>>}
            /\ pres' = PollResult("delfd", fd, mode, "none")
    /\ UNCHANGED <<kernelvars, pnames, pobj, osready, events, plock, wpc, wlocal,
                   wpend, acq, rel>>

\* the kevents of the kqueue q that the OS holds ready, as <<ident, filter>>
Fireable(q, rdy) == {<<e[1], e[2]>> : e \in {x \in q : <<x[1], x[2]>> \in rdy}}

\* the order in which the OS lists events: by ident, READ before WRITE
Before(a, b) ==
    \/ a[1] < b[1]
    \/ a[1] = b[1] /\ (a[2] = KQ_FILTER_READ \/ b[2] = KQ_FILTER_WRITE)

RECURSIVE Listing(_)
Listing(S) ==
    IF S = {} THEN <<>>
    ELSE LET e == CHOOSE x \in S : \A y \in S : Before(x, y)
         IN <<e>> \o Listing(S \ {e})

\* a kevent registered with KQ_EV_ONESHOT leaves the kqueue when delivered
KqDeliver(q, S) == {e \in q : ~(e[3] /\ <<e[1], e[2]>> \in S)}

\* a thread calls waitfd(pollserver)
WaitfdCall ==
    /\ pobj = "ok"
    /\ wpc = "idle"
    /\ wpc' = "w47"
    /\ wlocal' = <<>>
    /\ wpend' = "none"
    /\ acq' = 0
    /\ rel' = 0
    /\ pres' = PollResult("waitfd", 0, "none", "running")
    /\ UNCHANGED <<kernelvars, pnames, pobj, kq, osready, events, plock, removed>>

\* line 47: while len(self.events) == 0
BufferEmpty(b) == Len(b) = 0

Waitfd47 ==
    /\ wpc = "w47"
    /\ wpc' = IF BufferEmpty(events) THEN "w48" ELSE "w60"
    /\ UNCHANGED <<kernelvars, pnames, pobj, kq, osready, events, plock, wlocal,
                   wpend, pres, acq, rel, removed>>

\* line 48: pollserver.lock(), which blocks while the lock is held
Waitfd48 ==
    /\ wpc = "w48"
    /\ plock = "free"
    /\ acq < MaxLocks
    /\ plock' = "waitfd"
    /\ acq' = acq + 1
    /\ wpc' = "w50"
    /\ UNCHANGED <<kernelvars, pnames, pobj, kq, osready, events, wlocal, wpend,
                   pres, rel, removed>>

\* line 50: events = self.kq.control(None, 0, nsec).  The OS call returns
\* some of the ready kevents, or fails with select.error: interrupted
\* (EINTR) or another error (EBADF).
Waitfd50 ==
    /\ wpc = "w50"
    /\ \/ \E S \in SUBSET Fireable(kq, osready) :
            /\ wlocal' = Listing(S)
            /\ kq' = KqDeliver(kq, S)
            /\ wpend' = "fall"
            /\ wpc' = "w56"
       \/ \E err \in {"EINTR", "EBADF"} :
            /\ wlocal' = wlocal
            /\ kq' = kq
            /\ wpend' = err
            /\ wpc' = "w52"
    /\ UNCHANGED <<kernelvars, pnames, pobj, osready, events, plock, pres, acq,
                   rel, removed>>

\* lines 51-54: the handler reads errno (line 52); EINTR continues the
\* loop, any other error is raised again
Handler(err) ==
    IF ~Bound("errno") THEN "NameError"
    ELSE IF err = "EINTR" THEN "continue"
    ELSE "OSError"

Waitfd52 ==
    /\ wpc = "w52"
    /\ wpend' = Handler(wpend)
    /\ wpc' = "w56"
    /\ UNCHANGED <<kernelvars, pnames, pobj, kq, osready, events, plock, wlocal,
                   pres, acq, rel, removed>>

\* lines 55-56: the finally clause runs on every way out of the try
\* statement: pollserver.unlock()
\* (an unlock that leaves the lock with its holder)
UnlockKeeps(l) == l

Unlock(l) == "free"

\* where the try statement goes after its finally clause
AfterFinally(how) ==
    IF how = "fall" THEN "w58"
    ELSE IF how = "continue" THEN "w47"
    ELSE "idle"

Waitfd56 ==
    /\ wpc = "w56"
    /\ plock' = Unlock(plock)
    /\ rel' = rel + 1
    /\ wpc' = AfterFinally(wpend)
    /\ wpend' = "none"
    /\ pres' = IF AfterFinally(wpend) = "idle"
               THEN PollResult("waitfd", 0, "none", wpend)
               ELSE pres
    /\ UNCHANGED <<kernelvars, pnames, pobj, kq, osready, events, wlocal, acq,
                   removed>>

\* line 58: self.events.extend(events)
Waitfd58 ==
    /\ wpc = "w58"
    /\ events' = events \o wlocal
    /\ wpc' = "w47"
    /\ UNCHANGED <<kernelvars, pnames, pobj, kq, osready, plock, wlocal, wpend,
                   pres, acq, rel, removed>>

\* lines 61-64: the mode of an event
ModeOf(filter) == IF filter = KQ_FILTER_READ THEN "r" ELSE "w"

\* lines 60-66: pop the first buffered event and return (fd_(ident), mode)
Waitfd60 ==
    /\ wpc = "w60"
    /\ events' = Tail(events)
    /\ pres' = PollResult("waitfd", fd_(Head(events)[1]), ModeOf(Head(events)[2]),
                          "none")
    /\ wpc' = "idle"
    /\ UNCHANGED <<kernelvars, pnames, pobj, kq, osready, plock, wlocal, wpend,
                   acq, rel, removed>>

\* the OS: a descriptor becomes ready for a filter, or stops being ready
OsReady(fd, filter) ==
    /\ pobj = "ok"
    /\ <<fd, filter>> \notin osready
    /\ osready' = osready \cup {<<fd, filter>>}
    /\ UNCHANGED <<kernelvars, pnames, pobj, kq, events, plock, wpc, wlocal,
                   wpend, pres, acq, rel, removed>>

OsDrained(fd, filter) ==
    /\ pobj = "ok"
    /\ <<fd, filter>> \in osready
    /\ osready' = osready \ {<<fd, filter>>}
    /\ UNCHANGED <<kernelvars, pnames, pobj, kq, events, plock, wpc, wlocal,
                   wpend, pres, acq, rel, removed>>

\* another thread of the poll server takes the lock and gives it back
OtherLock ==
    /\ pobj = "ok"
    /\ plock = "free"
    /\ plock' = "other"
    /\ UNCHANGED <<kernelvars, pnames, pobj, kq, osready, events, wpc, wlocal,
                   wpend, pres, acq, rel, removed>>

OtherUnlock ==
    /\ plock = "other"
    /\ plock' = "free"
    /\ UNCHANGED <<kernelvars, pnames, pobj, kq, osready, events, wpc, wlocal,
                   wpend, pres, acq, rel, removed>>

\* The module is loaded with any of the unbound names bound from outside;
\* the kernel takes no step.
InitPoll ==
    /\ KernelInit
    /\ pnames \in SUBSET Unbound
    /\ pobj = "none"
    /\ kq = {}
    /\ osready = {}
    /\ events = <<>>
    /\ plock = "free"
    /\ wpc = "idle"
    /\ wlocal = <<>>
    /\ wpend = "none"
    /\ pres = PollResult("none", 0, "none", "none")
    /\ acq = 0
    /\ rel = 0
    /\ removed = {}

NextPoll ==
    \/ PollsterInit
    \/ \E fd \in Fds, mode \in Modes, repeat \in BOOLEAN : Addfd(fd, mode, repeat)
    \/ \E fd \in Fds, mode \in Modes : Delfd(fd, mode)
    \/ WaitfdCall
    \/ Waitfd47
    \/ Waitfd48
    \/ Waitfd50
    \/ Waitfd52
    \/ Waitfd56
    \/ Waitfd58
    \/ Waitfd60
    \/ \E fd \in Fds, filter \in {KQ_FILTER_READ, KQ_FILTER_WRITE} : OsReady(fd, filter)
    \/ \E fd \in Fds, filter \in {KQ_FILTER_READ, KQ_FILTER_WRITE} : OsDrained(fd, filter)
    \/ OtherLock
    \/ OtherUnlock

SpecPoll == InitPoll /\ [][NextPoll]_vars

\* sanity of the poller model
PollTypeOK ==
    /\ pnames \subseteq Unbound
    /\ pobj \in {"none", "ok", "failed"}
    /\ kq \subseteq (Fds \X {KQ_FILTER_READ, KQ_FILTER_WRITE} \X BOOLEAN)
    /\ osready \subseteq (Fds \X {KQ_FILTER_READ, KQ_FILTER_WRITE})
    /\ plock \in {"free", "waitfd", "other"}
    /\ wpc \in {"idle", "w47", "w48", "w50", "w52", "w56", "w58", "w60"}
    /\ acq \in 0..MaxLocks /\ rel \in 0..MaxLocks
    /\ removed \subseteq (Fds \X Modes)

\* sanity of the model itself
TypeOK ==
    /\ current \in Tasks
    /\ \A t \in Tasks : alive[t] /\ t # current => pc[t] \in {"new", "s145", "done"}
    /\ \A i \in 1..Len(runq) : runq[i] \in created
    /\ \A f \in DOMAIN sleeping : sleeping[f] \in created

\* =============================================================== claims
\* A state between kernel calls: the running task is in its body (or the
\* main program has left run()), and no callback is between two of its lines.
Quiescent ==
    /\ pc[current] \in {"body", "done"}
    /\ \A f \in Futs : cb[f] \in {"unreg", "reg", "fin"}

\* C1: no Task is at the same time an element of the Run Queue and a value
\* of the Sleeping Table, in any state reached between kernel calls by any
\* sequence of newproc, park, ready, enter_syscall, exit_syscall and
\* scheduling-loop steps.
C1_RunqSleepingDisjoint ==
    Quiescent => \A f \in DOMAIN sleeping : sleeping[f] \notin Range(runq)

\* C2: every Task that is a value of the Sleeping Table has its sleeping
\* flag set and is the value of exactly one handle, in any state reached
\* between kernel calls, ready(task) on a waiting Task included.
C2_SleepingTableFlag ==
    Quiescent =>
        \A f \in DOMAIN sleeping :
            /\ gsleeping[sleeping[f]]
            /\ Cardinality({h \in DOMAIN sleeping : sleeping[h] = sleeping[f]}) = 1

\* C3: ready(g) on a Task whose sleeping flag is false raises KernelError
\* to the caller and leaves the Run Queue, the Sleeping Table and every
\* sleeping flag as they were; on a Task whose flag is true it raises
\* nothing, clears that flag and appends g at the Run Queue tail.
C3_Ready ==
    [][\A t \in Procs, g \in Procs :
          Ready(t, g) =>
              IF ~gsleeping[g]
              THEN /\ raised' = "KernelError"
                   /\ runq' = runq
                   /\ sleeping' = sleeping
                   /\ gsleeping' = gsleeping
              ELSE /\ raised' = "none"
                   /\ runq' = runq \o <<g>>
                   /\ sleeping' = sleeping
                   /\ gsleeping' = [x \in Tasks |-> x # g /\ gsleeping[x]]]_vars

\* C3 witness: a ready() call has just raised KernelError.
C3_Witness == lastop = "ready" /\ raised = "KernelError"

\* C4: when the offloaded call of a live Task g has completed and g has
\* been put back in the Run Queue, a tick of the scheduling loop that
\* starts after that moment dispatches no Task that was queued and waiting
\* at that moment before g has been dispatched.
C4_PriorityOnResume ==
    \A t \in Tasks :
        (current = t /\ pc[t] = "s143") =>
            \A g \in Procs \ {gnext[t]} : gnext[t] \notin waiters[g]

\* C10: the callback of a cancelled handle removes the handle's entry from
\* the Sleeping Table, inserts nothing into the Run Queue, changes no
\* sleeping flag and returns; the callback that finds its Task not alive
\* has removed the entry, inserts nothing into the Run Queue and returns.
C10_CancelledCompletion ==
    [][\A f \in Futs :
          /\ (AtLine172(f) /\ cb'[f] # cb[f] /\ fut[f].state = "cancelled"
                  /\ f \in DOMAIN sleeping) =>
                 /\ f \notin DOMAIN sleeping'
                 /\ \A h \in DOMAIN sleeping' : h \in DOMAIN sleeping /\ sleeping'[h] = sleeping[h]
                 /\ runq' = runq
                 /\ gsleeping' = gsleeping
                 /\ cb'[f] = "fin"
          /\ (cb[f] = "c178" /\ cb'[f] # cb[f] /\ ~alive[cbg[f]]) =>
                 /\ f \notin DOMAIN sleeping'
                 /\ runq' = runq
                 /\ gsleeping' = gsleeping
                 /\ cb'[f] = "fin"]_vars

\* C10 witness: the callback of a cancelled handle has returned; the Task
\* that waited on it is in no entry of the Sleeping Table, is not in the
\* Run Queue and has its sleeping flag set.
C10_Witness ==
    \E f \in Futs :
        /\ lastop = "c176"
        /\ fut[f].state = "cancelled"
        /\ cb[f] = "fin"
        /\ f \notin DOMAIN sleeping
        /\ fut[f].by \notin Range(runq)
        /\ gsleeping[fut[f].by]

\* C5: the Signal Queue never holds more than 5 entries, whatever the
\* nesting and interleaving of signal_recv calls and drains.
C5_SignalBound == Len(SIGQUEUE) <= SigCapacity

\* C6: the scheduling loop switches into no Task in a tick that began
\* (line 114) with a quit, int or term signal in the Signal Queue, whatever
\* other signals were buffered before it.
C6_FatalSignal ==
    \A t \in Tasks :
        (current = t /\ pc[t] = "s143" /\ gnext[t] # t) => ~fatalAtTick

\* C7: with Tasks spawned before run() that only yield and end, run()
\* returns to the main program; no Task stops being alive more than once;
\* and when run() has returned every spawned Task has stopped being alive
\* exactly once and the Run Queue, the Sleeping Table and the Deferred
\* Re-entry Stack are empty.
C7_Completion ==
    /\ <>(pc[Main] = "done")
    /\ [](\A t \in Tasks : deaths[t] <= 1)
    /\ [](pc[Main] = "done" =>
              /\ raised = "none"
              /\ runq = <<>>
              /\ DOMAIN sleeping = {}
              /\ run_calls = <<>>
              /\ \A t \in created : ~alive[t] /\ deaths[t] = 1)

\* C7 witness: run() has returned after every Proc was spawned and ran.
C7_Witness ==
    /\ pc[Main] = "done"
    /\ created = Procs
    /\ \A t \in Procs : yielded[t] = MaxYield /\ ~alive[t]

\* The turns a Task has started: one when it first runs, one more each
\* time control comes back from a gosched() call.
Turns(t) ==
    IF pc[t] \in {"none", "new"} THEN 0
    ELSE IF pc[t] \in {"body", "dead"} THEN yielded[t] + 1
    ELSE yielded[t]

\* C8: while no spawned Task has ended, the Tasks take their turns in the
\* order they were spawned: the turn counts of two Tasks never differ by
\* more than one, an earlier Task is never behind a later one, and when
\* the last Task runs its K-th turn every Task has had exactly K turns.
C8_Fairness ==
    (pc[Main] # "body" /\ \A t \in created : alive[t]) =>
        /\ \A i, j \in created :
               i < j => Turns(j) <= Turns(i) /\ Turns(i) <= Turns(j) + 1
        /\ \A j \in created :
               (pc[j] = "body" /\ \A i \in created : i <= j) =>
                   \A i \in created : Turns(i) = Turns(j)

\* C8 witness: every Proc is alive and has had MaxYield turns, the last
\* Proc running its own.
C8_Witness ==
    /\ created = Procs
    /\ \A t \in Procs : alive[t] /\ Turns(t) = MaxYield
    /\ pc[MaxProcs] = "body"

\* C9: what enter_syscall returns or raises in a Task is the outcome of a
\* future that this Task submitted, with the kind (result or exception)
\* the worker gave it; an exception is raised, a result is not; and a Task
\* that is back from enter_syscall has got the outcome of that call.
C9_OwnOutcome ==
    /\ \A t \in Tasks : \A o \in got[t] :
           /\ fut[o[1]].by = t
           /\ fut[o[1]].state = "done"
           /\ o[2] = fut[o[1]].kind
    /\ \A f \in Futs :
           (fut[f].state # "none" /\ myf[fut[f].by] # f) =>
               <<f, fut[f].kind>> \in got[fut[f].by]
    /\ \A t \in Tasks :
           (lastop = "e166" /\ current = t /\ raised = "exc") =>
               \E o \in got[t] : o[2] = "exc"
    /\ \A t \in Tasks :
           (lastop = "e166" /\ current = t /\ raised = "none") =>
               \E o \in got[t] : o[2] = "val"

\* C9 witness: two Tasks are back from enter_syscall, one with the
\* exception of its call and one with the result of its call.
C9_Witness ==
    \E t, u \in Procs :
        /\ t # u
        /\ \E o \in got[t] : o[2] = "exc"
        /\ \E o \in got[u] : o[2] = "val"

\* C11: every Task that executes its body is the Task holding the CPU and
\* is the most recently dispatched Task (_last_task): no Task runs its
\* body while another Task is recorded as the one dispatched last.
C11_OneRunning ==
  \A t \in Tasks : pc[t] = "body" => (current = t /\ last_task = t)

\* C12: poller round trip.  addfd(fd, mode) returns with the kevent of that
\* fd and mode registered, so that waitfd can report it once the descriptor
\* is ready; and once delfd(fd, mode) has returned, no waitfd call returns
\* (fd, mode) again unless it was added again, whether the event was still
\* in the kqueue or already in the buffer, for mode 'w' as for mode 'r'.
C12_RoundTrip ==
    /\ pres.op = "addfd" =>
          /\ pres.exc = "none"
          /\ \E e \in kq : e[1] = pres.fd /\ ModeOf(e[2]) = pres.mode
    /\ (pres.op = "waitfd" /\ pres.exc = "none") =>
          <<pres.fd, pres.mode>> \notin removed

\* The offloaded call f of a live Task is outstanding, or has completed
\* uncancelled without the Task being back in the Run Queue: the Task is
\* still inside enter_syscall and the callback has not finished.
InFlight(f) ==
    /\ fut[f].state \in {"pending", "done"}
    /\ fut[f].by # NoTask
    /\ alive[fut[f].by]
    /\ myf[fut[f].by] = f
    /\ BeforeLine166(fut[f].by)
    /\ cb[f] # "fin"

\* C13: the scheduling loop takes neither the Deferred Re-entry branch
\* (line 135) nor the idle return (line 137) while the offloaded call of a
\* live Task is outstanding or completed but not yet re-admitted, whatever
\* the interleaving of exit_syscall with the loop.
C13_NoEarlyExit ==
    lastop \in {"s135", "s137"} => \A f \in Futs : ~InFlight(f)

\* C14: self-rotation.  A step of line 124 is taken with the invoking Task
\* at the head and moves that head to the tail, the others keeping their
\* order; a step of line 126 leaves the Run Queue as it is and takes its
\* head as candidate; and the candidate is not the invoker whenever the
\* Run Queue holds a Task other than the invoker.
C14_SelfRotation ==
    [][\A t \in Tasks :
         /\ (pc[t] = "s124" /\ pc'[t] = "s126") =>
               /\ Head(runq) = t
               /\ runq' = Tail(runq) \o <<Head(runq)>>
         /\ (pc[t] = "s126" /\ pc'[t] # "s126") =>
               /\ runq' = runq
               /\ gnext'[t] = Head(runq)
               /\ (\E g \in Range(runq) : g # t) => gnext'[t] # t
      ]_vars

\* C15: dead-candidate pruning.  Every step of line 140, taken when the
\* candidate is not alive, finds the candidate at the head of the Run
\* Queue, removes exactly that dead Task, raises nothing and restarts the
\* loop at line 114, from whichever of runq and _run_calls the candidate
\* came and however a completion callback is interleaved.
C15_DeadCandidate ==
    [][\A t \in Tasks :
         (pc[t] = "s140" /\ pc'[t] # "s140") =>
            /\ runq # <<>>
            /\ Head(runq) = gnext[t]
            /\ ~alive[Head(runq)]
            /\ runq' = Tail(runq)
            /\ raised' = "none"
            /\ pc'[t] = "s114"
      ]_vars

\* schedule(), called by t, hands control back to its caller in this step
Returning(t) ==
    /\ pc[t] \in {"s128", "s140", "s147"}
    /\ pc'[t] \in {"body", "done", "e166"}

\* C16: loop exit.  schedule() returns to the Task t that called it only
\* when t is the most recently dispatched Task, or when runq, sleeping and
\* _run_calls are all empty: never while another Task is recorded in
\* _last_task and work remains.
C16_LoopExit ==
    [][\A t \in Tasks :
         (Returning(t) /\ raised' = "none") =>
            \/ last_task = t
            \/ (runq = <<>> /\ DOMAIN sleeping = {} /\ run_calls = <<>>)
      ]_vars

\* C17: poller lock discipline.  waitfd is about to take the lock only
\* with the buffer empty; it holds the lock exactly from line 48 to the
\* finally clause of line 56, so the OS call of line 50 runs under the
\* lock; and whenever no waitfd call is in progress, because it returned or
\* raised, the lock is not held by waitfd and it was released as many
\* times as it was taken.
C17_LockDiscipline ==
    /\ wpc = "w48" => BufferEmpty(events)
    /\ (plock = "waitfd") = (wpc \in {"w50", "w52", "w56"})
    /\ (plock = "waitfd") = (acq = rel + 1)
    /\ plock # "waitfd" => acq = rel
    /\ wpc = "idle" => (plock # "waitfd" /\ acq = rel)

\* C17 witness: a waitfd call went round its loop, took the lock MaxLocks
\* times and gave it back each time; its last OS call failed and waitfd
\* raised the error; the lock is free.
C17_Witness ==
    /\ wpc = "idle"
    /\ pres.op = "waitfd"
    /\ pres.exc = "OSError"
    /\ acq = MaxLocks
    /\ rel = MaxLocks
    /\ plock = "free"

\* C18: no Task appears twice in the Run Queue, in any reachable state.
C18_NoDuplicates ==
    \A i, j \in 1..Len(runq) : runq[i] = runq[j] => i = j

\* C19: park() returns to the Task that parked itself only after the
\* Task's sleeping flag was cleared, by ready or by its completion
\* callback: no return of schedule() into a park() call finds the flag set.
C19_ParkReturn ==
    [][\A t \in Tasks :
         (Returning(t) /\ ret[t] = "park" /\ raised' = "none") => ~gsleeping[t]
      ]_vars

\* C20: exit_syscall always finds its handle.  Whenever the callback of a
\* handle is about to run line 172 the handle is a key of the Sleeping
\* Table, no step raises KeyError, and a callback that has returned never
\* runs again, whenever the worker completes: before line 160, before
\* line 161, before or after park.
C20_HandleFound ==
    [][\A f \in Futs :
         /\ AtLine172(f) => f \in DOMAIN sleeping
         /\ raised' # "KeyError"
         /\ cb[f] = "fin" => cb'[f] = "fin"
      ]_vars

\* C20 witness: the worker had finished before line 161 registered the
\* callback; the callback ran at once in the Task's thread, found the
\* handle and has returned, while the Task has not yet parked.
C20_Witness ==
    \E f \in Futs :
       /\ cb[f] = "fin"
       /\ fut[f].by # NoTask
       /\ pc[fut[f].by] = "e162"
       /\ myf[fut[f].by] = f
       /\ f \notin DOMAIN sleeping

====
